---- MODULE Spec2Model ----
(***************************************************************************)
(* A model of the life-state engine of src/ai_life_simulation.py:          *)
(* AILifeSimulation.__init__, live_one_day and save_all_data, run as a     *)
(* sequence of process runs over the five persisted documents.             *)
(*                                                                         *)
(* Real numbers are kept in tenths (happiness 6.5 is 65).  Text is kept as *)
(* a sequence of whitespace-free tokens, a generator response as a         *)
(* sequence of lines.  The Decision Generator and the random source are    *)
(* inputs: a scenario, drawn in Init, fixes what they return at each call. *)
(***************************************************************************)
EXTENDS Integers, Sequences, FiniteSets, TLC

VARIABLES
    sc,              \* the scenario: generator outputs and random draws (input)
    pc,              \* position of the process
    disk,            \* the five persisted documents
    character,       \* self.character
    memories,        \* self.memories
    learning_data,   \* self.learning_data
    daily_logs,      \* self.daily_logs["logs"]
    relationships,   \* self.relationships
    model,           \* self.model and self.tokenizer are set
    hour,            \* live_one_day: the loop variable
    start_happiness, \* live_one_day: local
    daily_events,    \* live_one_day: local
    parsed,          \* live_one_day: local, the last parsed response
    save_idx,        \* save_all_data: documents written so far
    before,          \* history: character and learning_data before the last step
    entry,           \* history: current_day and the log's length on entry to live_one_day
    regenerated,     \* history: the last goal update called the generation
    faults           \* history: crashes and failed writes during a save

vars == <<sc, pc, disk, character, memories, learning_data, daily_logs,
          relationships, model, hour, start_happiness, daily_events, parsed,
          save_idx, before, entry, regenerated, faults>>

----------------------------------------------------------------------------
(* Bounds of the model *)

\* live_one_day is not started once current_day exceeds MaxDays
MaxDays == 3
\* crashes and failed writes in one behaviour
MaxFaults == 1

(* Constants of the program *)

\* a variant of the loop's range with 23 hours: range(1, 24)
HoursPerDayShort == 24 - 1

HoursPerDay == 24
RecentCap == 50
GoalEvery == 3
LowHappiness == 40
MinHappiness == 0
MaxHappiness == 100
SuccessOver == 10
FailUnder == -5
DriftOver == 15
MinTrait == 10
MaxTrait == 100
MaxGoals == 3
MinGoalLen == 10

----------------------------------------------------------------------------
(* Sequences and arithmetic *)

Max2(a, b) == IF a >= b THEN a ELSE b
Min2(a, b) == IF a <= b THEN a ELSE b
Abs(x) == IF x < 0 THEN -x ELSE x
Range(s) == { s[i] : i \in DOMAIN s }

\* s[-n:]
LastN(s, n) == IF Len(s) <= n THEN s ELSE SubSeq(s, Len(s) - n + 1, Len(s))
\* s[:n]
FirstN(s, n) == IF Len(s) <= n THEN s ELSE SubSeq(s, 1, n)

\* [x for x in s if x != t]
RECURSIVE Without(_, _)
Without(s, t) ==
    IF s = <<>> THEN <<>>
    ELSE IF Head(s) = t THEN Without(Tail(s), t)
    ELSE <<Head(s)>> \o Without(Tail(s), t)

----------------------------------------------------------------------------
(* Text: str.startswith, str.replace, float() and the '+.1f' format, on    *)
(* token sequences                                                         *)

Labels == {"DECISION:", "ACTION:", "OUTCOME:", "HAPPINESS_CHANGE:", "INSIGHT:"}

\* stripped.startswith(label)
StartsWith(line, label) == Len(line) > 0 /\ line[1] = label

\* stripped.replace(label, '').strip(): every occurrence of the label goes
FieldText(line, label) == Without(line, label)

\* the texts float() accepts, with their value in tenths
FloatTable ==
    { <<"3", 30>>, <<"2.0", 20>>, <<"-2", -20>>, <<"1.0", 10>>, <<"1.1", 11>>,
      <<"-0.5", -5>>, <<"-0.6", -6>>, <<"1.5", 15>>, <<"1.6", 16>>,
      <<"-1.5", -15>>, <<"-1.6", -16>>, <<"0.0", 0>>,
      <<"-0.2", -2>>, <<"0.8", 8>>, <<"0.3", 3>>, <<"-0.1", -1>>,
      <<"-0.8", -8>>, <<"0.5", 5>>, <<"-0.4", -4>>, <<"0.7", 7>>,
      <<"-0.7", -7>>, <<"0.6", 6>>, <<"-0.3", -3>>, <<"11", 110>> }

\* change_str.replace('+', ''): the tokens that hold a '+'
PlusTable ==
    { <<"+3", "3">>, <<"+2.0", "2.0">>, <<"+1.0", "1.0">>, <<"+1.1", "1.1">>,
      <<"+1.5", "1.5">>, <<"+1.6", "1.6">>, <<"+0.8", "0.8">>,
      <<"+0.3", "0.3">>, <<"+0.5", "0.5">>, <<"+0.7", "0.7">>,
      <<"+0.6", "0.6">>, <<"+0.0", "0.0">>, <<"1+1", "11">>, <<"+", "">> }

RemovePlus(tok) ==
    IF \E p \in PlusTable : p[1] = tok
    THEN (CHOOSE p \in PlusTable : p[1] = tok)[2]
    ELSE tok

\* float(text) raises ValueError
FloatFails(text) ==
    \/ Len(text) /= 1
    \/ ~ \E p \in FloatTable : p[1] = RemovePlus(text[1])

FloatOf(text) == (CHOOSE p \in FloatTable : p[1] = RemovePlus(text[1]))[2]

\* f"{x:+.1f}", for the values the model formats
FormatTable ==
    { <<16, "+1.6">>, <<-16, "-1.6">>,
      <<-2, "-0.2">>, <<8, "+0.8">>, <<-5, "-0.5">>, <<3, "+0.3">>,
      <<-1, "-0.1">>, <<10, "+1.0">>, <<-8, "-0.8">>, <<5, "+0.5">>,
      <<-4, "-0.4">>, <<7, "+0.7">>, <<-7, "-0.7">>, <<6, "+0.6">>,
      <<-6, "-0.6">>, <<-3, "-0.3">> }

FormatSigned(x) == (CHOOSE p \in FormatTable : p[1] = x)[2]

----------------------------------------------------------------------------
(* parse_ai_response *)

EmptyParsed ==
    [decision |-> <<>>, action |-> <<>>, outcome |-> <<>>,
     happiness_change |-> 0, insight |-> <<>>]

\* one iteration of the loop over the lines; u is the draw of
\* random.uniform(-0.5, 1.5)
ParseLine(data, line, u) ==
    IF StartsWith(line, "DECISION:")
    THEN [data EXCEPT !.decision = FieldText(line, "DECISION:")]
    ELSE IF StartsWith(line, "ACTION:")
    THEN [data EXCEPT !.action = FieldText(line, "ACTION:")]
    ELSE IF StartsWith(line, "OUTCOME:")
    THEN [data EXCEPT !.outcome = FieldText(line, "OUTCOME:")]
    ELSE IF StartsWith(line, "HAPPINESS_CHANGE:")
    THEN LET change_str == FieldText(line, "HAPPINESS_CHANGE:")
         IN  [data EXCEPT !.happiness_change =
                  IF FloatFails(change_str) THEN u ELSE FloatOf(change_str)]
    ELSE IF StartsWith(line, "INSIGHT:")
    THEN [data EXCEPT !.insight = FieldText(line, "INSIGHT:")]
    ELSE data

RECURSIVE ParseLines(_, _, _)
ParseLines(data, lines, u) ==
    IF lines = <<>> THEN data
    ELSE ParseLines(ParseLine(data, Head(lines), u), Tail(lines), u)

parse_ai_response(response, u) == ParseLines(EmptyParsed, response, u)

----------------------------------------------------------------------------
(* generate_fallback_response *)

\* the if/elif chain over the prompt's topical markers and the inventory
FallbackBranch(words, inventory) ==
    IF "skincare" \in words
    THEN IF inventory.skincare_kit = 1 THEN "skincare_kit" ELSE "skincare_none"
    ELSE IF "hungry" \in words \/ "eat" \in words
    THEN IF "bread" \in Range(inventory.food_items)
         THEN "eat_bread" ELSE "eat_none"
    ELSE IF "call" \in words \/ "phone" \in words \/ "message" \in words
    THEN IF inventory.phone_credit > 0 THEN "call_credit" ELSE "call_none"
    ELSE IF "work" \in words \/ "job" \in words \/ "computer" \in words
    THEN IF inventory.money >= 3 THEN "work_money" ELSE "work_none"
    ELSE "selfcare"

\* a variant of FallbackChange with stronger feelings: -1.6 or +1.6
FallbackChangeStrong(branch, twist) == IF twist = "negative" THEN -16 ELSE 16

\* happiness_change of each branch, by twist
FallbackChange(branch, twist) ==
    LET neg == twist = "negative" IN
    CASE branch = "skincare_kit"  -> IF neg THEN -2 ELSE 8
      [] branch = "skincare_none" -> IF neg THEN -5 ELSE 3
      [] branch = "eat_bread"     -> IF neg THEN -1 ELSE 10
      [] branch = "eat_none"      -> IF neg THEN -8 ELSE 5
      [] branch = "call_credit"   -> IF neg THEN -4 ELSE 7
      [] branch = "call_none"     -> IF neg THEN -7 ELSE 6
      [] branch = "work_money"    -> IF neg THEN -5 ELSE 8
      [] branch = "work_none"     -> IF neg THEN -6 ELSE 3
      [] OTHER                    -> IF neg THEN -3 ELSE 7

\* the returned text; the ACTION block spans several lines
generate_fallback_response(words, inventory, twist) ==
    LET branch == FallbackBranch(words, inventory) IN
    << <<"DECISION:", "I", branch>>,
       <<"ACTION:", "1.", "I", "start">>,
       <<"2.", "I", "go", "on">>,
       <<"OUTCOME:", "I", "feel", twist, "about", branch>>,
       <<"HAPPINESS_CHANGE:", FormatSigned(FallbackChange(branch, twist))>>,
       <<"INSIGHT:", "about", branch, twist>> >>

----------------------------------------------------------------------------
(* The prompts, as the set of topical markers their text holds *)

\* str(inventory) names the inventory's keys
InventoryWords(inventory) ==
    (IF "skincare_kit" \in DOMAIN inventory THEN {"skincare"} ELSE {})
    \cup (IF "phone_credit" \in DOMAIN inventory THEN {"phone"} ELSE {})

\* happiness_focused_prompt: "working as a", "I'm hungry, what do I eat?",
\* "Nobody picks up my call"
happiness_focused_prompt(ch) ==
    InventoryWords(ch.inventory) \cup {"work", "hungry", "eat", "call"}

\* the context of dynamic_goal_generation
goal_context(ch) == InventoryWords(ch.inventory)

----------------------------------------------------------------------------
(* extract_goals_from_response and generate_fallback_goals *)

\* the tokens that start with '-', with what lstrip('-') leaves of them
DashTable ==
    { <<"-", "">>, <<"--", "">>, <<"-nap", "nap">>,
      <<"-0123456789", "0123456789">>, <<"-0123456789a", "0123456789a">> }

\* the tokens that hold 'goal' once lower-cased
GoalWords == { "goal", "Goal:", "goals", "GOAL" }

\* len() of each token of the goal texts
CharLenTable ==
    { <<"-", 1>>, <<"--", 2>>, <<"-nap", 4>>, <<"nap", 3>>, <<"goal", 4>>,
      <<"Goal:", 5>>, <<"goals", 5>>, <<"GOAL", 4>>, <<"call", 4>>,
      <<"Sarah", 5>>, <<"today", 5>>, <<"cook", 4>>, <<"dinner", 6>>,
      <<"take", 4>>, <<"a", 1>>, <<"walk", 4>>, <<"read", 4>>, <<"book", 4>>,
      <<"eat", 3>>, <<"my", 2>>, <<"is", 2>>, <<"rest", 4>>, <<"Sure,", 5>>,
      <<"here", 4>>, <<"you", 3>>, <<"go", 2>>, <<"-0123456789", 11>>,
      <<"0123456789", 10>>, <<"-0123456789a", 12>>, <<"0123456789a", 11>> }

CharLen(tok) == (CHOOSE p \in CharLenTable : p[1] = tok)[2]

RECURSIVE TextLen(_)
\* len(text): the tokens and the single spaces between them
TextLen(text) ==
    IF text = <<>> THEN 0
    ELSE IF Len(text) = 1 THEN CharLen(text[1])
    ELSE CharLen(Head(text)) + 1 + TextLen(Tail(text))

StartsWithDash(line) ==
    Len(line) > 0 /\ \E p \in DashTable : p[1] = line[1]

ContainsGoal(line) == \E i \in DOMAIN line : line[i] \in GoalWords

\* stripped.lstrip('-').strip(): only the head of the line loses its dashes
LStripDash(line) ==
    IF StartsWithDash(line)
    THEN LET rest == (CHOOSE p \in DashTable :
                          p[1] = line[1])[2]
         IN  IF rest = "" THEN Tail(line) ELSE <<rest>> \o Tail(line)
    ELSE line

RECURSIVE GoalLines(_)
\* the loop of extract_goals_from_response
GoalLines(lines) ==
    IF lines = <<>> THEN <<>>
    ELSE LET stripped == Head(lines)
             goal_text == LStripDash(stripped)
         IN  IF stripped = <<>> THEN GoalLines(Tail(lines))
             ELSE IF (StartsWithDash(stripped) \/ ContainsGoal(stripped))
                     /\ TextLen(goal_text) > MinGoalLen
             THEN <<goal_text>> \o GoalLines(Tail(lines))
             ELSE GoalLines(Tail(lines))

\* possible_goals, shortened; each keeps its leading '-'
possible_goals ==
    << <<"-", "find", "something", "to", "eat">>,
       <<"-", "text", "Sarah">>,
       <<"-", "short", "walk", "outside">>,
       <<"-", "small", "project">>,
       <<"-", "listen", "to", "music">>,
       <<"-", "quick", "nap">>,
       <<"-", "call", "Mom">>,
       <<"-", "read", "a", "book">>,
       <<"-", "brief", "workout">>,
       <<"-", "cook", "something", "new">> >>

\* a variant of generate_fallback_goals that draws with replacement
generate_fallback_goals_repeated(sample) ==
    << possible_goals[sample[1]], possible_goals[sample[1]] >>

\* random.sample(possible_goals, 2): sample is the pair of positions drawn
generate_fallback_goals(sample) ==
    << possible_goals[sample[1]], possible_goals[sample[2]] >>

\* a variant of extract_goals_from_response that returns goals, not goals[:3]
extract_goals_uncapped(response, sample) ==
    LET goals == GoalLines(response) IN
    IF goals = <<>> THEN generate_fallback_goals(sample) ELSE goals

extract_goals_from_response(response, sample) ==
    LET goals == GoalLines(response) IN
    FirstN(IF goals = <<>> THEN generate_fallback_goals(sample) ELSE goals,
           MaxGoals)

----------------------------------------------------------------------------
(* evolve_personality *)

Traits ==
    { "openness", "conscientiousness", "extraversion", "agreeableness",
      "neuroticism", "spontaneity", "ambition", "creativity" }

\* the tokens that hold 'positive' or 'happy' once lower-cased
PositiveWords == { "positive", "Positive", "happy", "Happy", "unhappy" }

\* a variant of IsPositive without .lower()
IsPositiveCaseSensitive(experience) ==
    \E i \in DOMAIN experience : experience[i] \in {"positive", "happy", "unhappy"}

IsPositive(experience) == \E i \in DOMAIN experience : experience[i] \in PositiveWords

\* a variant of ClampTrait without the lower limit
ClampTraitNoFloor(x) == Min2(MaxTrait, x)

\* max(1, min(10, current_value + change_amount))
ClampTrait(x) == Max2(MinTrait, Min2(MaxTrait, x))

\* what evolve_personality does once random.random() < 0.1: trait is the
\* draw of random.choice, mag (tenths, 1..3) that of random.uniform
ApplyDrift(ch, significant_experience, trait, mag) ==
    LET current_value == ch.personality[trait]
        change_amount == IF IsPositive(significant_experience) THEN mag ELSE -mag
        new_value     == ClampTrait(current_value + change_amount)
        change_record == [day       |-> ch.current_day,
                          trait     |-> trait,
                          change    |-> change_amount,
                          trigger   |-> significant_experience,
                          new_value |-> new_value]
    IN  [ch EXCEPT !.personality[trait] = new_value,
                   !.personality_evolution.changes = Append(@, change_record)]

\* draw.fires: random.random() < 0.1
evolve_personality(ch, significant_experience, draw) ==
    IF draw.fires
    THEN ApplyDrift(ch, significant_experience, draw.trait, draw.mag)
    ELSE ch

----------------------------------------------------------------------------
(* update_character_from_action *)

\* a variant of ClampHappiness without the upper limit
ClampHappinessNoCeiling(x) == Max2(MinHappiness, x)

\* max(0.0, min(10.0, current_happiness + happiness_change))
ClampHappiness(x) == Max2(MinHappiness, Min2(MaxHappiness, x))

\* a variant of ApplyHappiness in which the hour also costs energy
ApplyHappinessAndEnergy(ch, p) ==
    [ch EXCEPT !.current_stats.happiness =
                   ClampHappiness(@ + p.happiness_change),
               !.current_stats.energy = Max2(MinHappiness, @ - 1)]

\* a variant of ApplyHappiness in which an hour that ends below the
\* threshold of the goal policy drops the goals
ApplyHappinessDropGoals(ch, p) ==
    LET new_happiness == ClampHappiness(ch.current_stats.happiness
                                        + p.happiness_change)
    IN  [ch EXCEPT !.current_stats.happiness = new_happiness,
                   !.current_goals = IF new_happiness < LowHappiness
                                     THEN <<>> ELSE @]

ApplyHappiness(ch, p) ==
    [ch EXCEPT !.current_stats.happiness =
                   ClampHappiness(@ + p.happiness_change)]

\* a variant of StrategyKey that leaves the outcome out
StrategyKeyDecisionOnly(p) == p.decision

\* f"{decision} -> {outcome}"
StrategyKey(p) == p.decision \o <<"->">> \o p.outcome

\* a variant of AddStrategy without the membership test
AddStrategyAlways(list, key) == Append(list, key)

\* a variant of AddStrategy that puts a new key first: insert(0, key)
AddStrategyFirst(list, key) ==
    IF key \in Range(list) THEN list ELSE <<key>> \o list

AddStrategy(list, key) == IF key \in Range(list) THEN list ELSE Append(list, key)

\* a variant of IsSuccess with >= for >
IsSuccessInclusive(change) == change >= SuccessOver

IsSuccess(change) == change > SuccessOver
IsFailure(change) == change < FailUnder

Reinforce(l, p) ==
    IF IsSuccess(p.happiness_change)
    THEN [l EXCEPT !.successful_strategies = AddStrategy(@, StrategyKey(p))]
    ELSE IF IsFailure(p.happiness_change)
    THEN [l EXCEPT !.failed_strategies = AddStrategy(@, StrategyKey(p))]
    ELSE l

MemoryEntry(m, p) ==
    [hour             |-> Len(m.recent_actions) % 24,
     decision         |-> p.decision,
     outcome          |-> p.outcome,
     happiness_impact |-> p.happiness_change,
     insight          |-> p.insight,
     summary          |-> [decision |-> p.decision, felt |-> p.happiness_change]]

\* a variant of CapRecent that keeps the first 50: recent_actions[:50]
CapRecentOldest(actions) ==
    IF Len(actions) > RecentCap THEN FirstN(actions, RecentCap) ELSE actions

\* the cap: recent_actions[-50:] once there are more than 50
CapRecent(actions) ==
    IF Len(actions) > RecentCap THEN LastN(actions, RecentCap) ELSE actions

Remember(m, p) ==
    [m EXCEPT !.recent_actions = CapRecent(Append(@, MemoryEntry(m, p)))]

\* a variant of DriftTriggered with >= for >
DriftTriggeredInclusive(change) == Abs(change) >= DriftOver

DriftTriggered(change) == Abs(change) > DriftOver

DriftIfStrong(ch, p, draw) ==
    IF DriftTriggered(p.happiness_change)
    THEN evolve_personality(ch, p.outcome, draw)
    ELSE ch

----------------------------------------------------------------------------
(* generate_response, dynamic_goal_generation, dynamic_goal_update *)

\* out is what mlx_lm.generate does for this call: a text, or it raises
generate_response(loaded, out, words, inventory, twist) ==
    IF ~loaded THEN generate_fallback_response(words, inventory, twist)
    ELSE IF out.raises THEN generate_fallback_response(words, inventory, twist)
    ELSE out.text

dynamic_goal_generation(ch, loaded, out, twist, sample) ==
    IF loaded
    THEN extract_goals_from_response(
             generate_response(loaded, out, goal_context(ch), ch.inventory, twist),
             sample)
    ELSE generate_fallback_goals(sample)

\* a variant of should_update with <= for < on the happiness
should_update_inclusive(ch) ==
    \/ ch.current_day % GoalEvery = 0
    \/ ch.current_stats.happiness <= LowHappiness
    \/ Len(ch.current_goals) = 0

should_update(ch) ==
    \/ ch.current_day % GoalEvery = 0
    \/ ch.current_stats.happiness < LowHappiness
    \/ Len(ch.current_goals) = 0

\* a variant of dynamic_goal_update that also advances the day when it
\* regenerates the goals
dynamic_goal_update_next_day(ch, loaded, out, twist, sample) ==
    IF should_update(ch)
    THEN [ch EXCEPT !.current_goals =
                        dynamic_goal_generation(ch, loaded, out, twist, sample),
                    !.current_day = @ + 1]
    ELSE ch

dynamic_goal_update(ch, loaded, out, twist, sample) ==
    IF should_update(ch)
    THEN [ch EXCEPT !.current_goals =
                        dynamic_goal_generation(ch, loaded, out, twist, sample)]
    ELSE ch

----------------------------------------------------------------------------
(* The documents and their defaults: load_or_create_* *)

Docs == <<"character", "memories", "relationships", "daily_logs", "learning">>

Nil == [none |-> TRUE]
Absent == [st |-> "absent", val |-> Nil]
Corrupt == [st |-> "corrupt", val |-> Nil]
Stored(v) == [st |-> "ok", val |-> v]

\* the draws of load_or_create_character, at the low or the high end of
\* each range; c.happiness is the draw of random.uniform(4, 7)
initial_character(c) ==
    LET lo == c.level = "lo" IN
    [name        |-> "Alex",
     current_day |-> 1,
     age         |-> IF lo THEN 22 ELSE 35,
     personality |->
         [openness          |-> IF lo THEN 30 ELSE 90,
          conscientiousness |-> IF lo THEN 30 ELSE 90,
          extraversion      |-> IF lo THEN 20 ELSE 90,
          agreeableness     |-> IF lo THEN 30 ELSE 90,
          neuroticism       |-> IF lo THEN 20 ELSE 80,
          spontaneity       |-> IF lo THEN 30 ELSE 80,
          ambition          |-> IF lo THEN 30 ELSE 80,
          creativity        |-> IF lo THEN 30 ELSE 90],
     current_stats |->
         [happiness   |-> c.happiness,
          energy      |-> IF lo THEN 50 ELSE 80,
          social_need |-> IF lo THEN 30 ELSE 80,
          stress      |-> IF lo THEN 20 ELSE 60,
          health      |-> IF lo THEN 60 ELSE 90,
          motivation  |-> IF lo THEN 40 ELSE 70,
          curiosity   |-> IF lo THEN 40 ELSE 80,
          loneliness  |-> IF lo THEN 20 ELSE 60],
     current_situation |-> "Trying to figure out what matters",
     location      |-> "home",
     occupation    |-> IF lo THEN "freelance writer" ELSE "nurse",
     core_desire   |-> "To feel genuinely happy and fulfilled",
     current_goals |-> <<>>,
     inventory |->
         [skincare_kit |-> IF lo THEN 0 ELSE 1,
          money        |-> IF lo THEN 0 ELSE 50,
          food_items   |-> IF lo THEN <<>> ELSE <<"bread", "cheese">>,
          phone_credit |-> IF lo THEN 0 ELSE 20],
     personality_evolution |-> [changes |-> <<>>, last_major_shift |-> "None"]]

initial_memories ==
    [significant_events |-> <<>>, recent_actions |-> <<>>,
     learned_patterns |-> <<>>, emotional_memories |-> <<>>,
     daily_summaries |-> <<>>]

initial_relationships ==
    [Sarah |-> [type |-> "best_friend", closeness |-> 82, interaction_count |-> 0],
     Mom   |-> [type |-> "family", closeness |-> 91, interaction_count |-> 0],
     Jake  |-> [type |-> "coworker", closeness |-> 65, interaction_count |-> 0]]

initial_logs == <<>>

initial_learning ==
    [action_outcomes |-> <<>>, pattern_recognition |-> <<>>,
     relationship_learning |-> <<>>, mood_triggers |-> <<>>,
     successful_strategies |-> <<>>, failed_strategies |-> <<>>]

\* json.load of the file if it exists, else the default
load_or_create(doc, default) == IF doc.st = "ok" THEN doc.val ELSE default

----------------------------------------------------------------------------
(* The inputs: what the Decision Generator returns and what the random     *)
(* source draws.  A scenario fixes them for a whole behaviour: the output  *)
(* of the call at hour h is pattern[h] (cyclically), and so for the twist. *)

GenText(dec, out, num) ==
    [raises |-> FALSE,
     text   |-> << <<"DECISION:">> \o dec,
                   <<"ACTION:", "do", "it">>,
                   <<"OUTCOME:">> \o out,
                   <<"HAPPINESS_CHANGE:">> \o num,
                   <<"INSIGHT:", "noted">> >>]

GenRaises == [raises |-> TRUE, text |-> <<>>]

Rest     == GenText(<<"rest">>, <<"positive", "recovery">>, <<"+2.0">>)
RestBad  == GenText(<<"rest">>, <<"positive", "recovery">>, <<"-2">>)
Party    == GenText(<<"party">>, <<"happy", "night">>, <<"+3">>)
Argue    == GenText(<<"argue">>, <<"felt", "awful">>, <<"-2">>)
Walk10   == GenText(<<"walk">>, <<"fine">>, <<"+1.0">>)
Walk11   == GenText(<<"walk">>, <<"fine">>, <<"+1.1">>)
Skip05   == GenText(<<"skip">>, <<"dull">>, <<"-0.5">>)
Skip06   == GenText(<<"skip">>, <<"dull">>, <<"-0.6">>)
Up15     == GenText(<<"sing">>, <<"Happy", "tune">>, <<"+1.5">>)
Up16     == GenText(<<"sing">>, <<"Happy", "tune">>, <<"+1.6">>)
Down15   == GenText(<<"sulk">>, <<"unlucky">>, <<"-1.5">>)
Down16   == GenText(<<"sulk">>, <<"unlucky">>, <<"-1.6">>)
\* a HAPPINESS_CHANGE that float() refuses
Vague    == GenText(<<"nap">>, <<"ok">>, <<"a", "bit">>)
\* a HAPPINESS_CHANGE that is no number, and that float() accepts once
\* its '+' is removed
Sum      == GenText(<<"add">>, <<"fine">>, <<"1+1">>)
\* no labelled line at all
Rambling == [raises |-> FALSE, text |-> << <<"I", "rested">>, <<>> >>]

HourOutputs ==
    { Rest, RestBad, Party, Argue, Walk10, Walk11, Skip05, Skip06, Up15, Up16,
      Down15, Down16, Vague, Sum, Rambling, GenRaises }

Patterns ==
    { <<o>> : o \in HourOutputs }
    \cup { <<Rest, RestBad>>, <<Party, Argue>>, <<Argue, Argue, Party>>,
           <<Walk11, Skip06, Vague>>, <<Up16, Walk10, Down16, GenRaises>> }

\* the answers to the goal prompt
GoalThree == [raises |-> FALSE,
              text |-> << <<"Sure,", "here", "you", "go">>,
                          <<"-", "call", "Sarah", "today">>,
                          <<>>,
                          <<"-", "cook", "a", "dinner">>,
                          <<"-", "take", "a", "walk">> >>]
GoalFour  == [raises |-> FALSE,
              text |-> << <<"-", "call", "Sarah", "today">>,
                          <<"-", "cook", "a", "dinner">>,
                          <<"my", "goal", "is", "rest", "today">>,
                          <<"-", "read", "a", "book", "today">> >>]
GoalOne   == [raises |-> FALSE,
              text |-> << <<"--", "read", "a", "book", "today">>, <<"-", "eat">> >>]
GoalNone  == [raises |-> FALSE,
              text |-> << <<"-", "eat">>, <<"-0123456789">>, <<"read", "a", "book", "today">> >>]

GoalOutputs == { GoalThree, GoalFour, GoalOne, GoalNone, GenRaises }

NoDrift == [hours |-> {}, trait |-> "openness", mag |-> 1]

BaseScenario ==
    [pattern  |-> <<Rest>>,
     goal_out |-> GoalThree,
     loads    |-> TRUE,
     twists   |-> <<"positive", "negative">>,
     uniform  |-> 15,
     drift    |-> NoDrift,
     sample   |-> <<2, 7>>,
     create   |-> [happiness |-> 60, level |-> "lo"]]

Scenarios ==
    { [BaseScenario EXCEPT !.pattern = p] : p \in Patterns }
    \cup { [BaseScenario EXCEPT !.pattern = <<o>>, !.create.happiness = h] :
               o \in {Party, Argue, Rest, Rambling}, h \in {40, 45, 70} }
    \cup { [BaseScenario EXCEPT !.loads = FALSE, !.create.level = l, !.twists = t] :
               l \in {"lo", "hi"},
               t \in { <<"positive">>, <<"negative">>, <<"negative", "positive">> } }
    \cup { [BaseScenario EXCEPT !.pattern = p,
                                !.drift = [hours |-> hs, trait |-> "neuroticism", mag |-> m]] :
               p \in { <<Party, Argue>>, <<Up16, Up15>>, <<Down16>> },
               hs \in { {1}, 1..HoursPerDay }, m \in {1, 3} }
    \cup { [BaseScenario EXCEPT !.goal_out = g, !.sample = <<10, 1>>,
                                !.pattern = <<Skip06, Walk10>>, !.uniform = -5] :
               g \in GoalOutputs }
    \cup { [BaseScenario EXCEPT !.pattern = <<RestBad, Argue>>,
                                !.create.level = "hi",
                                !.drift = [hours |-> 1..HoursPerDay,
                                           trait |-> "creativity", mag |-> 2]] }
    \cup { [BaseScenario EXCEPT !.pattern = <<GenRaises>>,
                                !.create.level = "hi",
                                !.drift = [hours |-> 1..HoursPerDay,
                                           trait |-> "openness", mag |-> 3]] }
    \cup { [BaseScenario EXCEPT !.goal_out = GenRaises,
                                !.pattern = <<Rambling, Vague, GenRaises, Walk10>>] }
    \cup { [BaseScenario EXCEPT !.goal_out = Rest,
                                !.create = [happiness |-> h, level |-> "hi"]] :
               h \in {40, 55, 70} }

GenAt(h) == sc.pattern[((h - 1) % Len(sc.pattern)) + 1]
TwistAt(h) == sc.twists[((h - 1) % Len(sc.twists)) + 1]
DriftAt(h) == [fires |-> h \in sc.drift.hours, trait |-> sc.drift.trait,
               mag |-> sc.drift.mag]

----------------------------------------------------------------------------
(* The process *)

Engine == [character |-> character, learning_data |-> learning_data]

NoEngine == [character |-> Nil, learning_data |-> Nil]

NoEntry == [day |-> 0, logs |-> 0]

Running == pc \in {"ready", "hours", "saving", "returned"}

Init ==
    /\ sc \in Scenarios
    /\ pc = "off"
    /\ disk = [d \in Range(Docs) |-> Absent]
    /\ character = Nil
    /\ memories = Nil
    /\ learning_data = Nil
    /\ daily_logs = <<>>
    /\ relationships = Nil
    /\ model = FALSE
    /\ hour = 0
    /\ start_happiness = 0
    /\ daily_events = <<>>
    /\ parsed = EmptyParsed
    /\ save_idx = 0
    /\ before = NoEngine
    /\ entry = NoEntry
    /\ regenerated = FALSE
    /\ faults = 0

\* the process ends: its memory is gone
Forget ==
    /\ character' = Nil
    /\ memories' = Nil
    /\ learning_data' = Nil
    /\ daily_logs' = <<>>
    /\ relationships' = Nil
    /\ model' = FALSE
    /\ hour' = 0
    /\ start_happiness' = 0
    /\ daily_events' = <<>>
    /\ parsed' = EmptyParsed
    /\ save_idx' = 0
    /\ before' = NoEngine
    /\ entry' = NoEntry
    /\ regenerated' = FALSE

\* a variant of Construct that writes the character file it has just
\* loaded or created
ConstructAndSave ==
    /\ pc = "off"
    /\ \A d \in Range(Docs) : disk[d].st /= "corrupt"
    /\ character' = load_or_create(disk.character, initial_character(sc.create))
    /\ memories' = load_or_create(disk.memories, initial_memories)
    /\ relationships' = load_or_create(disk.relationships, initial_relationships)
    /\ daily_logs' = load_or_create(disk.daily_logs, initial_logs)
    /\ learning_data' = load_or_create(disk.learning, initial_learning)
    /\ model' = sc.loads
    /\ pc' = "ready"
    /\ disk' = [disk EXCEPT !.character = Stored(character')]
    /\ UNCHANGED <<sc, hour, start_happiness, daily_events, parsed,
                   save_idx, before, entry, regenerated, faults>>

\* __init__: the five load_or_create_* calls, then load_model
Construct ==
    /\ pc = "off"
    /\ \A d \in Range(Docs) : disk[d].st /= "corrupt"
    /\ character' = load_or_create(disk.character, initial_character(sc.create))
    /\ memories' = load_or_create(disk.memories, initial_memories)
    /\ relationships' = load_or_create(disk.relationships, initial_relationships)
    /\ daily_logs' = load_or_create(disk.daily_logs, initial_logs)
    /\ learning_data' = load_or_create(disk.learning, initial_learning)
    /\ model' = sc.loads
    /\ pc' = "ready"
    /\ UNCHANGED <<sc, disk, hour, start_happiness, daily_events, parsed,
                   save_idx, before, entry, regenerated, faults>>

\* __init__ when json.load raises on a file that is not whole
ConstructFails ==
    /\ pc = "off"
    /\ \E d \in Range(Docs) : disk[d].st = "corrupt"
    /\ pc' = "raised"
    /\ UNCHANGED <<sc, disk, character, memories, learning_data, daily_logs,
                   relationships, model, hour, start_happiness, daily_events,
                   parsed, save_idx, before, entry, regenerated, faults>>

\* live_one_day up to the loop: start_happiness, dynamic_goal_update
BeginDay ==
    /\ pc \in {"ready", "returned"}
    /\ character.current_day <= MaxDays
    /\ start_happiness' = character.current_stats.happiness
    /\ regenerated' = should_update(character)
    /\ character' = dynamic_goal_update(character, model, sc.goal_out,
                                        TwistAt(1), sc.sample)
    /\ daily_events' = <<>>
    /\ hour' = 1
    /\ pc' = "hours"
    /\ before' = Engine
    /\ entry' = [day |-> character.current_day, logs |-> Len(daily_logs)]
    /\ UNCHANGED <<sc, disk, memories, learning_data, daily_logs,
                   relationships, model, parsed, save_idx, faults>>

\* a variant of HourStep whose generate_response has no try/except: the
\* exception of mlx_lm.generate leaves live_one_day
HourStepUncaught ==
    /\ pc = "hours"
    /\ hour <= HoursPerDay
    /\ IF model /\ GenAt(hour).raises
       THEN /\ pc' = "raised"
            /\ UNCHANGED <<character, learning_data, memories, daily_events,
                           parsed, hour, before>>
       ELSE /\ \E response \in { generate_response(model, GenAt(hour),
                                                     happiness_focused_prompt(character),
                                                     character.inventory, TwistAt(hour)) } :
               \E p \in { parse_ai_response(response, sc.uniform) } :
                   /\ parsed' = p
                   /\ character' = DriftIfStrong(ApplyHappiness(character, p), p,
                                                 DriftAt(hour))
                   /\ learning_data' = Reinforce(learning_data, p)
                   /\ memories' = Remember(memories, p)
                   /\ daily_events' = Append(daily_events,
                                             [hour             |-> hour,
                                              decision         |-> p.decision,
                                              happiness_change |-> p.happiness_change,
                                              insight          |-> p.insight])
            /\ hour' = hour + 1
            /\ before' = Engine
            /\ pc' = pc
    /\ UNCHANGED <<sc, disk, daily_logs, relationships, model,
                   start_happiness, save_idx, entry, regenerated, faults>>

\* a variant of HourStep for a summary built without .copy(): the last
\* summary this instance appended shares its personality_snapshot with the
\* character, so that a later drift shows in it
HourStepSharedSnapshot ==
    /\ pc = "hours"
    /\ hour <= HoursPerDay
    /\ \E response \in { generate_response(model, GenAt(hour),
                                             happiness_focused_prompt(character),
                                             character.inventory, TwistAt(hour)) } :
       \E p \in { parse_ai_response(response, sc.uniform) } :
           /\ parsed' = p
           /\ character' = DriftIfStrong(ApplyHappiness(character, p), p,
                                         DriftAt(hour))
           /\ learning_data' = Reinforce(learning_data, p)
           /\ memories' = Remember(memories, p)
           /\ daily_events' = Append(daily_events,
                                     [hour             |-> hour,
                                      decision         |-> p.decision,
                                      happiness_change |-> p.happiness_change,
                                      insight          |-> p.insight])
    /\ daily_logs' = IF save_idx = Len(Docs) /\ daily_logs /= <<>>
                     THEN [daily_logs EXCEPT ![Len(daily_logs)].personality_snapshot =
                                                 character'.personality]
                     ELSE daily_logs
    /\ hour' = hour + 1
    /\ before' = Engine
    /\ UNCHANGED <<sc, pc, disk, relationships, model,
                   start_happiness, save_idx, entry, regenerated, faults>>

\* one iteration of the loop of live_one_day
HourStep ==
    /\ pc = "hours"
    /\ hour <= HoursPerDay
    /\ \E response \in { generate_response(model, GenAt(hour),
                                             happiness_focused_prompt(character),
                                             character.inventory, TwistAt(hour)) } :
       \E p \in { parse_ai_response(response, sc.uniform) } :
           /\ parsed' = p
           /\ character' = DriftIfStrong(ApplyHappiness(character, p), p,
                                         DriftAt(hour))
           /\ learning_data' = Reinforce(learning_data, p)
           /\ memories' = Remember(memories, p)
           /\ daily_events' = Append(daily_events,
                                     [hour             |-> hour,
                                      decision         |-> p.decision,
                                      happiness_change |-> p.happiness_change,
                                      insight          |-> p.insight])
    /\ hour' = hour + 1
    /\ before' = Engine
    /\ UNCHANGED <<sc, pc, disk, daily_logs, relationships, model,
                   start_happiness, save_idx, entry, regenerated, faults>>

\* a variant of daily_summary built after current_day += 1
daily_summary_next_day ==
    LET end_happiness == character.current_stats.happiness IN
    [day                  |-> character.current_day + 1,
     start_happiness      |-> start_happiness,
     end_happiness        |-> end_happiness,
     total_change         |-> end_happiness - start_happiness,
     events               |-> daily_events,
     goals_at_day_end     |-> character.current_goals,
     personality_snapshot |-> character.personality]

daily_summary ==
    LET end_happiness == character.current_stats.happiness IN
    [day                  |-> character.current_day,
     start_happiness      |-> start_happiness,
     end_happiness        |-> end_happiness,
     total_change         |-> end_happiness - start_happiness,
     events               |-> daily_events,
     goals_at_day_end     |-> character.current_goals,
     personality_snapshot |-> character.personality]

\* live_one_day after the loop: the summary, the log, current_day += 1
CompleteDay ==
    /\ pc = "hours"
    /\ hour = HoursPerDay + 1
    /\ daily_logs' = Append(daily_logs, daily_summary)
    /\ character' = [character EXCEPT !.current_day = @ + 1]
    /\ save_idx' = 0
    /\ pc' = "saving"
    /\ before' = Engine
    /\ UNCHANGED <<sc, disk, memories, learning_data, relationships, model,
                   hour, start_happiness, daily_events, parsed, entry,
                   regenerated, faults>>

\* a variant of Content in which the log file is written as it was before
\* the day's summary was appended
ContentStaleLog(d) ==
    CASE d = "character"     -> character
      [] d = "memories"      -> memories
      [] d = "relationships" -> relationships
      [] d = "daily_logs"    -> SubSeq(daily_logs, 1, Len(daily_logs) - 1)
      [] d = "learning"      -> learning_data

\* what save_all_data writes to each file
Content(d) ==
    CASE d = "character"     -> character
      [] d = "memories"      -> memories
      [] d = "relationships" -> relationships
      [] d = "daily_logs"    -> daily_logs
      [] d = "learning"      -> learning_data

\* save_all_data: one of its five writes; after the last, live_one_day returns
SaveDoc ==
    /\ pc = "saving"
    /\ LET d == Docs[save_idx + 1] IN
           disk' = [disk EXCEPT ![d] = Stored(Content(d))]
    /\ save_idx' = save_idx + 1
    /\ pc' = IF save_idx + 1 = Len(Docs) THEN "returned" ELSE "saving"
    /\ UNCHANGED <<sc, character, memories, learning_data, daily_logs,
                   relationships, model, hour, start_happiness, daily_events,
                   parsed, before, entry, regenerated, faults>>

\* save_all_data: a write raises, at open() (the file is as it was) or in
\* json.dump (the file is cut short); the exception leaves live_one_day
SaveFails ==
    /\ pc = "saving"
    /\ faults < MaxFaults
    /\ LET d == Docs[save_idx + 1] IN
           \/ disk' = disk
           \/ disk' = [disk EXCEPT ![d] = Corrupt]
    /\ faults' = faults + 1
    /\ pc' = "raised"
    /\ UNCHANGED <<sc, character, memories, learning_data, daily_logs,
                   relationships, model, hour, start_happiness, daily_events,
                   parsed, save_idx, before, entry, regenerated>>

\* the process is killed outside save_all_data
Crash ==
    /\ pc \in {"ready", "hours", "returned"}
    /\ pc' = "off"
    /\ Forget
    /\ UNCHANGED <<sc, disk, faults>>

\* the process is killed in save_all_data, between two writes or in one
CrashInSave ==
    /\ pc = "saving"
    /\ faults < MaxFaults
    /\ LET d == Docs[save_idx + 1] IN
           \/ disk' = disk
           \/ disk' = [disk EXCEPT ![d] = Corrupt]
    /\ faults' = faults + 1
    /\ pc' = "off"
    /\ Forget
    /\ UNCHANGED sc

\* main returns, or the exception ends the process
Exit ==
    /\ pc \in {"returned", "raised"}
    /\ pc' = "off"
    /\ Forget
    /\ UNCHANGED <<sc, disk, faults>>

Next ==
    \/ Construct
    \/ ConstructFails
    \/ BeginDay
    \/ HourStep
    \/ CompleteDay
    \/ SaveDoc
    \/ SaveFails
    \/ CrashInSave
    \/ Crash
    \/ Exit

Spec == Init /\ [][Next]_vars

\* the runs in which the process is not killed and every write succeeds
LiveNext ==
    \/ Construct
    \/ BeginDay
    \/ HourStep
    \/ CompleteDay
    \/ SaveDoc
    \/ Exit

\* live_one_day is straight-line code around a loop of 24 iterations: once
\* called it takes its next step as long as the calls it makes return
LiveSpec ==
    /\ Init
    /\ [][LiveNext]_vars
    /\ WF_vars(HourStep)
    /\ WF_vars(CompleteDay)
    /\ WF_vars(SaveDoc)

----------------------------------------------------------------------------
(* Properties of the engine, by the number of the statement they settle *)

\* an iteration of the hourly loop has just run: parsed is its outcome and
\* before is the state it found
AfterHour == pc = "hours" /\ hour > 1

Happiness == character.current_stats.happiness
HappinessBefore == before.character.current_stats.happiness

\* C1: for every starting happiness in [0,10] and every hourly outcome,
\* happiness after the update is clamp(old + delta, 0, 10), so it stays in
\* [0,10]: +3 at 9 gives 10, -2 at 0.5 gives 0.
C1_HappinessClamped ==
    /\ Running => Happiness \in 0..100
    /\ AfterHour =>
           LET x == HappinessBefore + parsed.happiness_change IN
           /\ HappinessBefore \in 0..100
           /\ Happiness = IF x < 0 THEN 0 ELSE IF x > 100 THEN 100 ELSE x
           /\ (HappinessBefore = 90 /\ parsed.happiness_change = 30) => Happiness = 100
           /\ (HappinessBefore = 5 /\ parsed.happiness_change = -20) => Happiness = 0

\* C1, the case: a delta of +3 has just been applied at happiness 9
C1_Witness ==
    AfterHour /\ HappinessBefore = 90 /\ parsed.happiness_change = 30
    /\ Happiness = 100

\* C1, the lower case: a delta of -2 has just been applied at happiness 0.5
C1_WitnessFloor ==
    AfterHour /\ HappinessBefore = 5 /\ parsed.happiness_change = -20
    /\ Happiness = 0

LastLog == daily_logs[Len(daily_logs)]

\* C2: a completed live_one_day has incremented current_day by exactly 1 and
\* appended exactly one entry to the Daily Log History, whose events are the
\* 24 hourly events of hours 1..24 in ascending order.
C2_OneDayPerCall ==
    pc \in {"saving", "returned"} =>
        /\ character.current_day = entry.day + 1
        /\ Len(daily_logs) = entry.logs + 1
        /\ Len(LastLog.events) = 24
        /\ \A i \in 1..24 : LastLog.events[i].hour = i
        /\ LastLog.day = entry.day

\* C2, the case: live_one_day has returned from its second day
C2_Witness ==
    pc = "returned" /\ entry.day = 2 /\ entry.logs = 1 /\ Len(daily_logs) = 2

\* what the next run loads from each file
Loaded ==
    [character     |-> load_or_create(disk.character, initial_character(sc.create)),
     memories      |-> load_or_create(disk.memories, initial_memories),
     daily_logs    |-> load_or_create(disk.daily_logs, initial_logs),
     learning_data |-> load_or_create(disk.learning, initial_learning)]

NoneCorrupt == \A d \in Range(Docs) : disk[d].st /= "corrupt"

\* the persisted logs and memories are those of n completed days
ReflectsDays(n) ==
    /\ Len(Loaded.daily_logs) = n
    /\ \A i \in 1..n : Loaded.daily_logs[i].day = i
    /\ Len(Loaded.memories.recent_actions) = Min2(RecentCap, n * HoursPerDay)

\* C3: the five documents are committed together: wherever the process is
\* killed during live_one_day, also between the writes of save_all_data,
\* a persisted current_day of N comes with the logs and memories of exactly
\* N-1 completed days (stated for the files that are whole).
C3_AtomicCommit ==
    (pc = "off" /\ NoneCorrupt) =>
        ReflectsDays(Loaded.character.current_day - 1)

\* C4: when a write of save_all_data fails, live_one_day raises, and the
\* current_day the next run loads is the one from before the failed day.
C4_FailedSaveKeepsDay ==
    (pc = "raised" /\ entry.day > 0 /\ NoneCorrupt) =>
        Loaded.character.current_day = entry.day

\* the step is one of save_all_data (or the kill of the process in it)
InSave == pc = "saving"

\* C5: no document is written during construction, goal regeneration or the
\* hours 1..24: every step taken before save_all_data starts, a crash
\* included, leaves the five persisted documents as they were, and the next
\* run is constructed from them.
C5_NoWriteBeforeSave ==
    [][ /\ ~InSave => disk' = disk
        /\ (pc = "off" /\ pc' = "ready") =>
               /\ character' = Loaded.character
               /\ memories' = Loaded.memories
               /\ daily_logs' = Loaded.daily_logs
               /\ learning_data' = Loaded.learning_data ]_vars

\* C5, the case: the 24 hours of the second day are done in memory and the
\* files still hold the first day only
C5_Witness ==
    /\ pc = "hours" /\ hour = HoursPerDay + 1 /\ entry.day = 2
    /\ Len(memories.recent_actions) = 48
    /\ disk.memories.st = "ok" /\ Len(disk.memories.val.recent_actions) = 24
    /\ disk.character.st = "ok" /\ disk.character.val.current_day = 2
    /\ disk.character.val.current_stats.happiness /= Happiness

\* the hourly step is being taken
HourStepping == pc = "hours" /\ hour' = hour + 1

\* C6: after any number of hourly appends recent_actions has at most 50
\* entries and is the most recent min(n,50) appended records in append order:
\* each append puts the hour's record last and keeps the order of the others,
\* dropping the oldest once there would be 51.
C6_RecentActionsCapped ==
    [][ /\ Running' => Len(memories'.recent_actions) <= 50
        /\ HourStepping =>
               LET old == memories.recent_actions
                   new == memories'.recent_actions
                   n   == Len(new)
               IN  /\ n = Min2(Len(old) + 1, 50)
                   /\ new[n].decision = parsed'.decision
                   /\ new[n].outcome = parsed'.outcome
                   /\ new[n].happiness_impact = parsed'.happiness_change
                   /\ new[n].insight = parsed'.insight
                   /\ \A i \in 1..(n - 1) : new[i] = old[i + Len(old) + 1 - n]
                   /\ Len(old) = 50 => \A i \in 1..49 : new[i] = old[i + 1]
        /\ (Running /\ Running' /\ ~HourStepping) => memories' = memories ]_vars

\* C6, the case: the list holds 50 records and the last was appended to a
\* list of 50, so that the oldest was dropped for it
C6_Witness ==
    /\ AfterHour
    /\ Len(memories.recent_actions) = 50
    /\ memories.recent_actions[50].hour = 50 % 24
    /\ memories.recent_actions[50].decision = parsed.decision

NoDuplicates(list) ==
    \A i, j \in DOMAIN list : list[i] = list[j] => i = j

\* C7: successful_strategies and failed_strategies never hold a key twice;
\* an hourly update with delta > 1.0 whose key is already in
\* successful_strategies leaves the list as it was.
C7_NoDuplicateStrategies ==
    /\ Running =>
           /\ NoDuplicates(learning_data.successful_strategies)
           /\ NoDuplicates(learning_data.failed_strategies)
    /\ (AfterHour /\ parsed.happiness_change > 10
        /\ StrategyKey(parsed) \in Range(before.learning_data.successful_strategies)) =>
           learning_data.successful_strategies =
               before.learning_data.successful_strategies

\* C7, the case: the same key has just been applied again with delta > 1.0
C7_Witness ==
    /\ AfterHour /\ parsed.happiness_change > 10
    /\ StrategyKey(parsed) \in Range(before.learning_data.successful_strategies)
    /\ Len(learning_data.successful_strategies) =
           Len(before.learning_data.successful_strategies)

\* C8: an hourly update adds its key to successful_strategies exactly when
\* delta > 1.0 and to failed_strategies exactly when delta < -0.5; for a
\* delta in (-0.5, 1.0], 1.0 included, both lists are unchanged; no update
\* adds to both.
C8_ReinforcementThresholds ==
    AfterHour =>
        LET d   == parsed.happiness_change
            key == StrategyKey(parsed)
            s0  == before.learning_data.successful_strategies
            s1  == learning_data.successful_strategies
            f0  == before.learning_data.failed_strategies
            f1  == learning_data.failed_strategies
        IN  /\ d > 10 => (key \in Range(s1) /\ f1 = f0)
            /\ d < -5 => (key \in Range(f1) /\ s1 = s0)
            /\ (d >= -5 /\ d <= 10) => (s1 = s0 /\ f1 = f0)
            /\ s1 /= s0 => (d > 10 /\ key \notin Range(s0) /\ s1 = Append(s0, key))
            /\ f1 /= f0 => (d < -5 /\ key \notin Range(f0) /\ f1 = Append(f0, key))
            /\ s1 = s0 \/ f1 = f0

\* C8, the case: a delta of exactly 1.0 has just been applied and its key is
\* in neither list
C8_Witness ==
    /\ AfterHour /\ parsed.happiness_change = 10
    /\ StrategyKey(parsed) \notin Range(learning_data.successful_strategies)
    /\ StrategyKey(parsed) \notin Range(learning_data.failed_strategies)
    /\ learning_data.failed_strategies /= <<>>

\* live_one_day has just run its goal update
AfterGoalUpdate == pc = "hours" /\ hour = 1

C9_WitnessSkipped ==
    /\ AfterGoalUpdate /\ ~regenerated
    /\ before.character.current_day % 3 /= 0
    /\ HappinessBefore = 40
    /\ character.current_goals /= <<>>

\* C10: an hourly update with |delta| <= 1.5, 1.5 included, leaves the
\* personality vector and personality_evolution.changes as they were.
C10_NoDriftAtOrBelowThreshold ==
    (AfterHour /\ Abs(parsed.happiness_change) <= 15) =>
        /\ character.personality = before.character.personality
        /\ character.personality_evolution = before.character.personality_evolution

\* C10, the case: a delta of exactly 1.5 has just been applied in an hour
\* whose random draw would have let the drift happen
C10_Witness ==
    /\ AfterHour /\ Abs(parsed.happiness_change) = 15
    /\ DriftAt(hour - 1).fires
    /\ character.personality = before.character.personality

PersonalityChanges == character.personality_evolution.changes
LastChange == PersonalityChanges[Len(PersonalityChanges)]

\* the values of a character record are in their declared ranges
InRanges(ch) ==
    /\ \A t \in Traits : ch.personality[t] \in 10..100
    /\ DOMAIN ch.personality = Traits
    /\ \A s \in DOMAIN ch.current_stats : ch.current_stats[s] \in 0..100

\* C11: from a freshly created character, every personality trait is within
\* [1,10] and every current_stats value within [0,10] in every reachable
\* state, in memory and in the character file, after any sequence of hourly
\* updates and personality drifts.
C11_ValuesInRange ==
    /\ Running => InRanges(character)
    /\ disk.character.st = "ok" => InRanges(disk.character.val)

\* C11, the case: a drift has just taken a trait below 1 and it was set to 1
C11_Witness ==
    /\ AfterHour /\ PersonalityChanges /= before.character.personality_evolution.changes
    /\ before.character.personality[LastChange.trait] + LastChange.change < 10
    /\ character.personality[LastChange.trait] = 10

\* C11, the upper case: a drift has just taken a trait above 10 and it was
\* set to 10
C11_WitnessCeiling ==
    /\ AfterHour /\ PersonalityChanges /= before.character.personality_evolution.changes
    /\ before.character.personality[LastChange.trait] + LastChange.change > 100
    /\ character.personality[LastChange.trait] = 100

\* the usable bullets of the text the generator returns to the goal prompt
UsableBullets == GoalLines(sc.goal_out.text)

\* the goal prompt of the last goal update was answered by the generator
GoalsFromGenerator == AfterGoalUpdate /\ regenerated /\ model /\ ~sc.goal_out.raises

\* C12: from a freshly created character (no goals), current_goals has at
\* most 3 entries in every reachable state, in memory and in the character
\* file, whatever text the generator returns at a goal regeneration; of more
\* than 3 usable bullets the first 3 are kept.
C12_AtMostThreeGoals ==
    /\ Running => Len(character.current_goals) <= 3
    /\ disk.character.st = "ok" => Len(disk.character.val.current_goals) <= 3
    /\ (GoalsFromGenerator /\ Len(UsableBullets) > 3) =>
           character.current_goals = SubSeq(UsableBullets, 1, 3)

\* C12, the case: the generator has just answered the goal prompt with four
\* usable bullets and three goals were kept
C12_Witness ==
    /\ GoalsFromGenerator
    /\ Len(UsableBullets) = 4
    /\ Len(character.current_goals) = 3

\* C13: whenever the goal regeneration fires, the new current_goals replaces
\* the prior list entirely and has 2 or 3 entries, for every text the
\* generator can return.
C13_TwoOrThreeGoals ==
    (AfterGoalUpdate /\ regenerated) =>
        /\ Len(character.current_goals) \in {2, 3}
        /\ GoalsFromGenerator /\ UsableBullets /= <<>> =>
               character.current_goals = FirstN(UsableBullets, 3)

\* the step is the end of the hourly loop: the summary and current_day += 1
CompletingDay == pc = "hours" /\ pc' = "saving"

\* C14: current_day never decreases within a run: the goal regeneration,
\* each of the hours 1..24 and the writes of save_all_data leave it as it
\* was, and the day completion, the only step that changes it, adds exactly 1;
\* nor does the current_day of the character file ever decrease.
C14_DayMonotonic ==
    [][ /\ (Running /\ Running') =>
               /\ character'.current_day >= character.current_day
               /\ CompletingDay => character'.current_day = character.current_day + 1
               /\ ~CompletingDay => character'.current_day = character.current_day
        /\ (disk.character.st = "ok" /\ disk'.character.st = "ok") =>
               disk'.character.val.current_day >= disk.character.val.current_day ]_vars

\* C14, the case: the goals were regenerated on day 3, the 24 hours are done
\* and current_day is still 3
C14_Witness ==
    /\ pc = "hours" /\ hour = HoursPerDay + 1 /\ regenerated
    /\ entry.day = 3 /\ character.current_day = 3

\* "rest -> positive recovery"
RestKey == <<"rest", "->", "positive", "recovery">>

Occurrences(list, x) == Cardinality({ i \in DOMAIN list : list[i] = x })

\* the first live_one_day of a fresh character has returned, and the
\* generator answered every hour with decision "rest", outcome "positive
\* recovery" and delta +2.0
RestDayDone ==
    pc = "returned" /\ entry.day = 1 /\ model /\ sc.pattern = <<Rest>>

\* C15: a fresh character (day 1, happiness in [4,7]) whose generator
\* returns delta +2.0, decision "rest" and outcome "positive recovery" at
\* every hour has, after one live_one_day, happiness exactly 10,
\* "rest -> positive recovery" exactly once in successful_strategies,
\* current_day 2, and one daily log whose total_change is 10 minus the
\* starting happiness.
C15_RestDay ==
    RestDayDone =>
        /\ start_happiness \in 40..70
        /\ Happiness = 100
        /\ Occurrences(learning_data.successful_strategies, RestKey) = 1
        /\ character.current_day = 2
        /\ Len(daily_logs) = 1
        /\ daily_logs[1].start_happiness = start_happiness
        /\ daily_logs[1].total_change = 100 - start_happiness
        /\ Len(daily_logs[1].events) = 24
        /\ \A i \in 1..24 : daily_logs[1].events[i].happiness_change = 20

\* C15, the case: such a day has returned for a character created with
\* happiness 4.0, the generator giving the same text to the goal prompt
C15_Witness ==
    /\ RestDayDone /\ sc.goal_out = Rest
    /\ start_happiness = 40 /\ Happiness = 100
    /\ daily_logs[1].total_change = 60

\* live_one_day has returned the summary of a day of 24 hourly events
DaySummarised ==
    /\ pc = "returned"
    /\ Len(daily_logs) = entry.logs + 1
    /\ LastLog.day = entry.day
    /\ Len(LastLog.events) = HoursPerDay

\* the generator raises at some hour of the day
RaisesInDay == \E h \in 1..HoursPerDay : GenAt(h).raises
\* the generator returns a text without labels at some hour of the day
RamblesInDay == \E h \in 1..HoursPerDay : GenAt(h) = Rambling

\* C16: whatever the generator does at the goal regeneration and at each of
\* the 24 hours (well-formed text, malformed text, a call that raises), a
\* live_one_day that has been started goes through all 24 hours and, every
\* write succeeding, returns with the day's summary.
C16_DayTerminates == (pc = "hours") ~> DaySummarised

\* C16, the case: live_one_day has returned from a day in which the
\* generator raised at the goal prompt and at some hours and returned
\* malformed text at others
C16_Witness ==
    /\ DaySummarised
    /\ model /\ regenerated /\ sc.goal_out.raises
    /\ RaisesInDay /\ RamblesInDay

\* the text that the last hourly step parsed
LastResponse ==
    generate_response(model, GenAt(hour - 1),
                      happiness_focused_prompt(before.character),
                      before.character.inventory, TwistAt(hour - 1))

HasLabel(text, label) == \E i \in DOMAIN text : StartsWith(text[i], label)

\* the decimal numbers, with or without a sign, among the tokens of the model
NumberTokens ==
    { "3", "2.0", "-2", "1.0", "1.1", "-0.5", "-0.6", "1.5", "1.6", "-1.5",
      "-1.6", "0.0", "-0.2", "0.8", "0.3", "-0.1", "-0.8", "0.5", "-0.4",
      "0.7", "-0.7", "0.6", "-0.3", "11", "+3", "+2.0", "+1.0", "+1.1",
      "+1.5", "+1.6", "+0.8", "+0.3", "+0.5", "+0.7", "+0.6", "+0.0" }

\* what follows the label on a HAPPINESS_CHANGE line is not a number
NonNumericDelta(text) ==
    \E i \in DOMAIN text :
        /\ StartsWith(text[i], "HAPPINESS_CHANGE:")
        /\ LET value == Tail(text[i]) IN
               ~(Len(value) = 1 /\ value[1] \in NumberTokens)

\* C17: parse_ai_response returns a structured outcome for every text: each
\* of decision, action, outcome and insight whose label is absent is the
\* empty string, and when the HAPPINESS_CHANGE label is absent or its value
\* is not a number, the delta is within [-0.5, 1.5].
C17_ParseDefaults ==
    AfterHour =>
        /\ ~HasLabel(LastResponse, "DECISION:") => parsed.decision = <<>>
        /\ ~HasLabel(LastResponse, "ACTION:") => parsed.action = <<>>
        /\ ~HasLabel(LastResponse, "OUTCOME:") => parsed.outcome = <<>>
        /\ ~HasLabel(LastResponse, "INSIGHT:") => parsed.insight = <<>>
        /\ (~HasLabel(LastResponse, "HAPPINESS_CHANGE:") \/ NonNumericDelta(LastResponse)) =>
               parsed.happiness_change \in -5..15

\* in this run the generator was found unavailable before the last hourly
\* step: the model did not load, or mlx_lm.generate raised at the goal prompt
\* or at an earlier hour of this live_one_day
FoundUnavailable ==
    \/ ~model
    \/ regenerated /\ sc.goal_out.raises
    \/ \E h \in 1..(hour - 2) : GenAt(h).raises

\* the last hourly step parsed the text of generate_fallback_response
ServedByFallback ==
    parsed = parse_ai_response(
                 generate_fallback_response(
                     happiness_focused_prompt(before.character),
                     before.character.inventory, TwistAt(hour - 1)),
                 sc.uniform)

\* C18: once the generator has been found unavailable in a run (the model
\* cannot be loaded, or a generate call raises), every later request of the
\* run is served by the rule-based fallback and the generator is not
\* consulted again.
C18_FallbackForTheRest ==
    (AfterHour /\ FoundUnavailable) => ServedByFallback

\* the goals were just regenerated without a usable bullet of the generator:
\* the model is not loaded, or the call raised, or its text has none
NoUsableBullet ==
    /\ AfterGoalUpdate /\ regenerated
    /\ (~model \/ sc.goal_out.raises \/ UsableBullets = <<>>)

\* C19: when the goals are regenerated and the generator is unavailable or
\* its text has no usable bullet (no line that starts with '-' or holds
\* 'goal' and is longer than 10 characters once trimmed), current_goals
\* becomes exactly 2 distinct goals of the fixed catalogue.
C19_FallbackGoals ==
    NoUsableBullet =>
        /\ Len(character.current_goals) = 2
        /\ character.current_goals[1] /= character.current_goals[2]
        /\ \A i \in 1..2 : character.current_goals[i] \in Range(possible_goals)

\* C19, the case: the generator answered the goal prompt with lines of which
\* none is usable, and two catalogue goals were set
C19_Witness ==
    /\ NoUsableBullet /\ model /\ ~sc.goal_out.raises
    /\ Len(sc.goal_out.text) = 3
    /\ character.current_goals = << possible_goals[10], possible_goals[1] >>

\* C19, the other cases: the model is not loaded; the call raised
C19_WitnessUnloaded == NoUsableBullet /\ ~model /\ Len(character.current_goals) = 2
C19_WitnessRaised ==
    NoUsableBullet /\ model /\ sc.goal_out.raises /\ Len(character.current_goals) = 2

OtherStats(ch) ==
    [s \in (DOMAIN ch.current_stats) \ {"happiness"} |-> ch.current_stats[s]]

\* what the hourly loop reads and is not to write
Context(ch, rel) ==
    [stats       |-> OtherStats(ch),
     graph       |-> rel,
     inventory   |-> ch.inventory,
     core_desire |-> ch.core_desire]

\* C20: every hourly update, and live_one_day as a whole (its goal update,
\* its 24 hours, its completion and its writes), leaves unchanged the
\* current_stats other than happiness (energy, social_need, stress, health,
\* motivation, curiosity, loneliness), the relationship graph, the inventory
\* and core_desire: when live_one_day returns they are as created.
C20_ContextUnchanged ==
    [][ /\ (Running /\ Running') =>
               Context(character', relationships') = Context(character, relationships)
        /\ HourStepping =>
               /\ DOMAIN OtherStats(character') =
                      { "energy", "social_need", "stress", "health",
                        "motivation", "curiosity", "loneliness" }
               /\ relationships' = relationships
        /\ pc' = "returned" =>
               Context(character', relationships') =
                   Context(initial_character(sc.create), initial_relationships) ]_vars

\* C20, the case: the second live_one_day has returned, the happiness has
\* changed in it, and the rest is as created
C20_Witness ==
    /\ pc = "returned" /\ entry.day = 2
    /\ Happiness /= start_happiness
    /\ Context(character, relationships) =
           Context(initial_character(sc.create), initial_relationships)

\* the step is the entry to live_one_day
EnteringDay == pc \in {"ready", "returned"} /\ pc' = "hours"

\* the step is the first write of save_all_data, that of the character file
WritingCharacter == pc = "saving" /\ save_idx = 0 /\ save_idx' = 1

\* C21: the summary appended at day completion has day = current_day before
\* the increment, start_happiness = the happiness on entry to live_one_day
\* (before the goal update and hour 1), end_happiness = the happiness after
\* hour 24 and total_change = end_happiness - start_happiness; it is in the
\* log when current_day is incremented, and the increment is done when the
\* save, entered once, writes its first file.
C21_SummaryAtCompletion ==
    [][ /\ EnteringDay => start_happiness' = character.current_stats.happiness
        /\ (pc = "hours" /\ pc' = "hours") => start_happiness' = start_happiness
        /\ CompletingDay =>
               /\ hour = 25
               /\ Len(daily_logs') = Len(daily_logs) + 1
               /\ SubSeq(daily_logs', 1, Len(daily_logs)) = daily_logs
               /\ daily_logs'[Len(daily_logs')].day = character.current_day
               /\ daily_logs'[Len(daily_logs')].start_happiness = start_happiness
               /\ daily_logs'[Len(daily_logs')].end_happiness =
                      character.current_stats.happiness
               /\ daily_logs'[Len(daily_logs')].total_change =
                      character.current_stats.happiness - start_happiness
               /\ character'.current_day = character.current_day + 1
               /\ disk' = disk
               /\ save_idx' = 0
        /\ WritingCharacter =>
               /\ disk'.character.val.current_day = LastLog.day + 1
               /\ Len(daily_logs) = entry.logs + 1
               /\ daily_logs' = daily_logs ]_vars

\* C21, the case: the second day is complete, its summary is in the log with
\* day 2, current_day is 3 and nothing of it is written yet
C21_Witness ==
    /\ pc = "saving" /\ save_idx = 0
    /\ LastLog.day = 2 /\ character.current_day = 3
    /\ LastLog.total_change /= 0
    /\ LastLog.end_happiness = Happiness
    /\ disk.character.st = "ok" /\ disk.character.val.current_day = 2

\* the last hourly step applied a personality drift
Drifted ==
    AfterHour /\ PersonalityChanges /= before.character.personality_evolution.changes

\* the text holds 'positive' or 'happy', whatever the case of its letters
SaysPositive(text) ==
    \E i \in DOMAIN text :
        text[i] \in {"positive", "Positive", "happy", "Happy", "unhappy"}

C22_WitnessUpperCase ==
    Drifted /\ "Happy" \in Range(parsed.outcome) /\ LastChange.change > 0

\* C23: personality_evolution keeps the time of the most recent change
\* record: in every reachable state last_major_shift is null exactly while
\* personality_evolution.changes is empty.
C23_LastMajorShift ==
    Running =>
        (character.personality_evolution.last_major_shift = "None"
             <=> PersonalityChanges = <<>>)

LastAction == memories.recent_actions[Len(memories.recent_actions)]

\* C24: the hour field of a recent_actions entry is the hour-of-day index of
\* the hourly step that produced it: the record appended at hour k (1..24)
\* of any day, also once the list has reached its 50 entries, has hour k-1.
C24_HourOfDayIndex ==
    AfterHour => LastAction.hour = (hour - 1) - 1

IsPrefix(s, t) == Len(s) <= Len(t) /\ SubSeq(t, 1, Len(s)) = s

\* the log file is whole (or not yet there)
LogFileWhole == disk.daily_logs.st /= "corrupt"

\* C25: the Daily Log History is append-only: a later live_one_day, on the
\* same instance or in a later run, leaves every earlier summary as it was,
\* its goals_at_day_end and personality_snapshot included, also when the
\* goals are regenerated or a trait drifts afterwards: every step of a run
\* keeps the log in memory as a prefix, every write keeps the log file as a
\* prefix, and a later run starts from the log file.
C25_LogAppendOnly ==
    [][ /\ (Running /\ Running') => IsPrefix(daily_logs, daily_logs')
        /\ (LogFileWhole /\ LogFileWhole') => IsPrefix(Loaded.daily_logs, Loaded.daily_logs')
        /\ (pc = "off" /\ pc' = "ready") => daily_logs' = Loaded.daily_logs
        /\ ~CompletingDay /\ Running /\ Running' => daily_logs' = daily_logs ]_vars

\* C25, the case: the instance that completed day 2 is in its next
\* live_one_day, the goals were regenerated and a trait has drifted since the
\* summary of day 2 was appended, and that summary has the snapshot it had
C25_Witness ==
    /\ pc = "hours" /\ save_idx = Len(Docs) /\ entry.day = 3 /\ regenerated
    /\ Len(daily_logs) = 2 /\ daily_logs[2].day = 2
    /\ daily_logs[2].personality_snapshot /= character.personality
    /\ disk.daily_logs.st = "ok" /\ disk.daily_logs.val = daily_logs

\* C26: the goal regeneration is evaluated once per day, before hour 1: the
\* goals change at no step but the entry to live_one_day, no hourly step
\* changes them, and goals_at_day_end of the summary is current_goals as it
\* stood after the goal update, also when the happiness falls below 4 or
\* rises during the day.
C26_GoalsFixedDuringDay ==
    [][ /\ HourStepping => character'.current_goals = character.current_goals
        /\ (Running /\ Running' /\ ~EnteringDay) =>
               character'.current_goals = character.current_goals
        /\ CompletingDay =>
               daily_logs'[Len(daily_logs')].goals_at_day_end =
                   character.current_goals
        /\ (EnteringDay /\ ~regenerated') =>
               character'.current_goals = character.current_goals ]_vars

\* C26, the case: a day that began at happiness 4 or more and ended below 4
\* is complete, and its summary has the goals that are still current
C26_Witness ==
    /\ pc = "saving" /\ save_idx = 0
    /\ LastLog.start_happiness >= 40 /\ LastLog.end_happiness < 40
    /\ LastLog.goals_at_day_end = character.current_goals
    /\ character.current_goals /= <<>>
    /\ should_update(before.character)

\* t is s, or s with one entry added at its end
GrownAtEnd(s, t) == t = s \/ (Len(t) = Len(s) + 1 /\ SubSeq(t, 1, Len(s)) = s)

\* C27: successful_strategies and failed_strategies only grow and keep the
\* order of insertion: no hourly update, goal update or day completion (nor
\* a write of the save) removes or moves an entry, and a new key is placed
\* after all the others; only the hourly update adds one.
C27_StrategiesGrowOnly ==
    [][ /\ (Running /\ Running') =>
               /\ GrownAtEnd(learning_data.successful_strategies,
                             learning_data'.successful_strategies)
               /\ GrownAtEnd(learning_data.failed_strategies,
                             learning_data'.failed_strategies)
        /\ (Running /\ Running' /\ ~HourStepping) => learning_data' = learning_data
        /\ (pc = "off" /\ pc' = "ready") => learning_data' = Loaded.learning_data ]_vars

\* C27, the case: a second key has just been added to successful_strategies,
\* after the first
C27_Witness ==
    /\ AfterHour
    /\ Len(before.learning_data.successful_strategies) = 1
    /\ StrategyKey(parsed) \notin Range(before.learning_data.successful_strategies)
    /\ learning_data.successful_strategies =
           Append(before.learning_data.successful_strategies, StrategyKey(parsed))

\* no save of this history was cut short by a kill or a failed write
NoFaultInSave == faults = 0

\* C28: from a fresh character and over any number of live_one_day runs whose
\* saves all succeed, the persisted state after each run has current_day =
\* (number of log entries) + 1 and the i-th log entry has day i.
C28_DaysConsecutive ==
    (NoFaultInSave /\ pc /= "saving") =>
        /\ Loaded.character.current_day = Len(Loaded.daily_logs) + 1
        /\ \A i \in 1..Len(Loaded.daily_logs) : Loaded.daily_logs[i].day = i

\* C28, the case: three runs have each lived and saved a day
C28_Witness ==
    /\ NoFaultInSave /\ pc = "off"
    /\ disk.character.st = "ok" /\ disk.character.val.current_day = 4
    /\ disk.daily_logs.st = "ok" /\ Len(disk.daily_logs.val) = 3
    /\ disk.daily_logs.val[3].day = 3

\* every hourly request of the run is served by generate_fallback_response:
\* the model is not loaded, or every call of mlx_lm.generate raises
AllFallback == ~model \/ \A h \in 1..HoursPerDay : GenAt(h).raises

\* C29: when every hour is served by the rule-based fallback, every hourly
\* delta has absolute value at most 1.0, so that no hourly step adds to
\* successful_strategies, changes a trait or appends a change record, and
\* over the whole of live_one_day, from the fresh character on, the list and
\* the change log stay empty and the personality stays as created.
C29_FallbackIsMild ==
    /\ (AfterHour /\ AllFallback) =>
           /\ ServedByFallback
           /\ Abs(parsed.happiness_change) <= 10
           /\ learning_data.successful_strategies =
                  before.learning_data.successful_strategies
           /\ character.personality = before.character.personality
           /\ PersonalityChanges = before.character.personality_evolution.changes
    /\ (Running /\ AllFallback) =>
           /\ learning_data.successful_strategies = <<>>
           /\ character.personality = initial_character(sc.create).personality
           /\ PersonalityChanges = <<>>
           /\ \A i \in DOMAIN daily_logs : \A j \in DOMAIN daily_logs[i].events :
                  Abs(daily_logs[i].events[j].happiness_change) <= 10

\* C29, the case: live_one_day has returned from a day whose 24 calls of the
\* loaded model all raised, in hours whose random draw would have let a
\* drift happen, and the happiness has moved
C29_Witness ==
    /\ pc = "returned" /\ model /\ AllFallback
    /\ \A h \in 1..HoursPerDay : DriftAt(h).fires
    /\ Len(LastLog.events) = 24 /\ LastLog.total_change /= 0
    /\ learning_data.successful_strategies = <<>>

\* C29, the other case: the model is not loaded and a fallback hour has
\* cost half a point, the strongest delta of the branch the prompt selects
C29_WitnessUnloaded ==
    /\ AfterHour /\ ~model /\ ServedByFallback
    /\ parsed.happiness_change = -5
    /\ learning_data.successful_strategies = <<>>

====
